---- MODULE Spec2Model ----
(***************************************************************************)
(* Self-Refine functional core of agential (cog/functional/self_refine.py) *)
(* and the agent tool functions (utils/agent_tools.py).                    *)
(*                                                                         *)
(* Text is modelled as a sequence of Unicode code points, so that          *)
(* str.lower(), str.strip() and the substring test `in` are computed the   *)
(* way Python computes them.                                               *)
(***************************************************************************)
EXTENDS Integers, Sequences, FiniteSets, TLC

VARIABLES
    state,        \* Refine Loop state: INIT, ANSWERED, FEEDBACK_GIVEN, REFINED, HALTED, ERROR
    question,     \* Task: the question
    examples,     \* Task: the few-shot example text
    solution,     \* Session State: current Solution
    feedback,     \* Session State: current Feedback
    trace,        \* one record per completed call of the llm, oldest first
    result,       \* what the loop handed back to its caller
    hf,           \* halting policy study: the feedback string under test
    hres,         \* halting policy study: "none" or the value _is_halted returned
    tcall,        \* tool study: the tool call and the outcome of the world it ran against
    tres          \* tool study: what the tool call did (returned a string / raised)

loopvars == <<state, question, examples, solution, feedback, trace, result>>
haltvars == <<hf, hres>>
toolvars == <<tcall, tres>>
vars == <<state, question, examples, solution, feedback, trace, result, hf, hres, tcall, tres>>

-----------------------------------------------------------------------------
(* Bounds *)

\* the Refine Loop is explored up to this many llm calls
MaxCalls == 7
\* longest text put before and after the acceptance phrase
MaxPad == 1
\* longest program given to execute_python, in statements
MaxStatements == 2
\* most pods in a Wolfram Alpha result
MaxPods == 2

-----------------------------------------------------------------------------
(* Text *)

NoText == << >>

\* "it is correct", the literal of _is_halted
PHRASE == <<105, 116, 32, 105, 115, 32, 99, 111, 114, 114, 101, 99, 116>>

IsUpperAscii(c) == c \in 65..90
IsLowerAscii(c) == c \in 97..122

\* str.lower() of one character.  U+0130 (capital I with dot above) lowers to
\* the two characters U+0069 U+0307; U+212A (Kelvin sign) lowers to "k".
LowerChar(c) ==
    IF IsUpperAscii(c) THEN <<c + 32>>
    ELSE IF c = 304 THEN <<105, 775>>
    ELSE IF c = 8490 THEN <<107>>
    ELSE <<c>>

RECURSIVE Lower(_)
Lower(s) == IF s = << >> THEN << >> ELSE LowerChar(Head(s)) \o Lower(Tail(s))

\* Python's `sub in s` for str
Contains(sub, s) ==
    \E i \in 0..(Len(s) - Len(sub)) : SubSeq(s, i + 1, i + Len(sub)) = sub

\* the characters str.strip() removes (str.isspace(), below U+0100)
IsSpace(c) == c \in {9, 10, 11, 12, 13, 28, 29, 30, 31, 32, 133, 160}

\* str.strip()
Strip(s) ==
    LET keep == {i \in 1..Len(s) : ~IsSpace(s[i])}
    IN  IF keep = {} THEN << >>
        ELSE LET lo == CHOOSE i \in keep : \A j \in keep : i <= j
                 hi == CHOOSE i \in keep : \A j \in keep : j <= i
             IN  SubSeq(s, lo, hi)

-----------------------------------------------------------------------------
(* Halting policy: _is_halted *)

IsHaltedCaseSensitive(f) == Contains(PHRASE, f)

IsHaltedExact(f) == Lower(f) = PHRASE

\* "correct"
IsHaltedAnyCorrect(f) == Contains(<<99, 111, 114, 114, 101, 99, 116>>, Lower(f))

IsHaltedNever(f) == FALSE

IsHalted(f) == Contains(PHRASE, Lower(f))

-----------------------------------------------------------------------------
(* Prompt Builder: PromptTemplate.from_template(prompt).format(...) *)

Lit(n) == [kind |-> "lit", name |-> n, text |-> NoText]
Var(n) == [kind |-> "var", name |-> n, text |-> NoText]

\* The default templates.  Only their placeholders matter here; the literal
\* text between them is kept as named pieces.
SELF_REFINE_INSTRUCTION_GSM8K ==
    <<Var("examples"), Lit("answer-sep"), Var("question"), Lit("answer-cue")>>
SELF_REFINE_FEEDBACK_INSTRUCTION_GSM8K ==
    <<Var("examples"), Lit("feedback-sep"), Var("solution"), Lit("feedback-cue")>>
SELF_REFINE_REFINE_INSTRUCTION_GSM8K ==
    <<Var("examples"), Lit("refine-sep"), Var("solution"), Lit("refine-mid"),
      Var("feedback"), Lit("refine-cue")>>

\* str.format: every placeholder is replaced by the value of the keyword
\* argument of its name, verbatim; literal text is kept
Format(template, args) ==
    [i \in DOMAIN template |->
        IF template[i].kind = "var"
        THEN [kind |-> "val", name |-> template[i].name, text |-> args[template[i].name]]
        ELSE template[i]]

\* the values a rendered prompt carries for placeholder n
PromptValues(p, n) == {p[i].text : i \in {j \in DOMAIN p : p[j].kind = "val" /\ p[j].name = n}}

BuildAgentPrompt(q, ex, prompt) ==
    Format(prompt, [question |-> q, examples |-> ex])

BuildFeedbackPromptStale(ex, sol, prompt) ==
    Format(prompt, [examples |-> ex, solution |-> ex])

BuildFeedbackPrompt(ex, sol, prompt) ==
    Format(prompt, [examples |-> ex, solution |-> sol])

BuildRefinePrompt(ex, sol, fb, prompt) ==
    Format(prompt, [examples |-> ex, solution |-> sol, feedback |-> fb])

-----------------------------------------------------------------------------
(* Model Caller: llm([HumanMessage(content=prompt)]).content *)

\* What one call of the llm can do: raise, return a message whose content is
\* not a str (a list of content blocks), or return a message with text content.
TextReply(t) == [kind |-> "text", text |-> t]
RaiseReply == [kind |-> "raise", text |-> NoText]
NonTextReply == [kind |-> "nontext", text |-> NoText]

\* the call, the isinstance assertion and the strip shared by the three
\* _prompt_* functions: one llm call per invocation
CallLLMNoStrip(p, reply) ==
    IF reply.kind = "raise"
    THEN [prompt |-> p, raised |-> "service", out |-> NoText]
    ELSE IF reply.kind # "text"
    THEN [prompt |-> p, raised |-> "AssertionError", out |-> NoText]
    ELSE [prompt |-> p, raised |-> "none", out |-> reply.text]

CallLLMSwallow(p, reply) ==
    IF reply.kind # "text"
    THEN [prompt |-> p, raised |-> "none", out |-> NoText]
    ELSE [prompt |-> p, raised |-> "none", out |-> Strip(reply.text)]

CallLLM(p, reply) ==
    IF reply.kind = "raise"
    THEN [prompt |-> p, raised |-> "service", out |-> NoText]
    ELSE IF reply.kind # "text"
    THEN [prompt |-> p, raised |-> "AssertionError", out |-> NoText]
    ELSE [prompt |-> p, raised |-> "none", out |-> Strip(reply.text)]

PromptAgent(reply, q, ex, prompt) ==
    CallLLM(BuildAgentPrompt(q, ex, prompt), reply)

PromptFeedback(reply, ex, sol, prompt) ==
    CallLLM(BuildFeedbackPrompt(ex, sol, prompt), reply)

PromptRefine(reply, ex, sol, fb, prompt) ==
    CallLLM(BuildRefinePrompt(ex, sol, fb, prompt), reply)

-----------------------------------------------------------------------------
(* The replies the stubbed llm draws from *)

Questions == {<<81, 49>>, <<81, 50>>}                 \* "Q1", "Q2"
ExampleTexts == {<<69, 49>>}                          \* "E1"

Failures == {RaiseReply, NonTextReply}

\* " 42 ", "\t\n", ""
AnswerReplies ==
    {TextReply(<<32, 52, 50, 32>>), TextReply(<<9, 10>>), TextReply(<< >>)} \cup Failures

\* " It Is Correct. ", "it is correct", " the answer is correctish\n", "wrong"
FeedbackReplies ==
    {TextReply(<<32, 73, 116, 32, 73, 115, 32, 67, 111, 114, 114, 101, 99, 116, 46, 32>>),
     TextReply(PHRASE),
     TextReply(<<32, 116, 104, 101, 32, 97, 110, 115, 119, 101, 114, 32, 105, 115, 32,
                 99, 111, 114, 114, 101, 99, 116, 105, 115, 104, 10>>),
     TextReply(<<119, 114, 111, 110, 103>>)} \cup Failures

\* "R1", " R2\n", " "
RefineReplies ==
    {TextReply(<<82, 49>>), TextReply(<<32, 82, 50, 10>>), TextReply(<<32>>)} \cup Failures

-----------------------------------------------------------------------------
(* Refine Loop *)

\* no tool has been called
NoCall == <<"none">>
NoOutcome == [kind |-> "none", value |-> NoText]

NoResult == [kind |-> "none", value |-> NoText]

calls == Len(trace)

Steps(kind) == {i \in 1..Len(trace) : trace[i].step = kind}
Done(kind) == {i \in Steps(kind) : trace[i].raised = "none"}

refinements == Cardinality(Done("refine"))

Logged(kind, r, reply) ==
    Append(trace, [step |-> kind, prompt |-> r.prompt, reply |-> reply,
                   raised |-> r.raised, out |-> r.out])

Running == result.kind = "none" /\ calls < MaxCalls

LoopInit ==
    /\ state = "INIT"
    /\ question \in Questions
    /\ examples \in ExampleTexts
    /\ solution = NoText
    /\ feedback = NoText
    /\ trace = << >>
    /\ result = NoResult

\* the session's error outcome: nothing is stored, the error goes to the caller
Surface(r) ==
    /\ result' = [kind |-> "error", value |-> NoText]
    /\ UNCHANGED <<state, solution, feedback>>

\* INIT -> ANSWERED
Answer ==
    /\ Running
    /\ state = "INIT"
    /\ \E reply \in AnswerReplies :
        LET r == PromptAgent(reply, question, examples, SELF_REFINE_INSTRUCTION_GSM8K)
        IN  /\ trace' = Logged("answer", r, reply)
            /\ IF r.raised = "none"
               THEN /\ solution' = r.out
                    /\ state' = "ANSWERED"
                    /\ UNCHANGED <<feedback, result>>
               ELSE Surface(r)
    /\ UNCHANGED <<question, examples, haltvars, toolvars>>

\* ANSWERED -> FEEDBACK_GIVEN, REFINED -> FEEDBACK_GIVEN
Feedback ==
    /\ Running
    /\ state \in {"ANSWERED", "REFINED"}
    /\ \E reply \in FeedbackReplies :
        LET r == PromptFeedback(reply, examples, solution,
                                SELF_REFINE_FEEDBACK_INSTRUCTION_GSM8K)
        IN  /\ trace' = Logged("feedback", r, reply)
            /\ IF r.raised = "none"
               THEN /\ feedback' = r.out
                    /\ state' = "FEEDBACK_GIVEN"
                    /\ UNCHANGED <<solution, result>>
               ELSE Surface(r)
    /\ UNCHANGED <<question, examples, haltvars, toolvars>>

\* FEEDBACK_GIVEN -> HALTED
Halt ==
    /\ result.kind = "none"
    /\ state = "FEEDBACK_GIVEN"
    /\ IsHalted(feedback)
    /\ state' = "HALTED"
    /\ result' = [kind |-> "solution", value |-> solution]
    /\ UNCHANGED <<question, examples, solution, feedback, trace, haltvars, toolvars>>

\* FEEDBACK_GIVEN -> REFINED
Refine ==
    /\ Running
    /\ state = "FEEDBACK_GIVEN"
    /\ ~IsHalted(feedback)
    /\ \E reply \in RefineReplies :
        LET r == PromptRefine(reply, examples, solution, feedback,
                              SELF_REFINE_REFINE_INSTRUCTION_GSM8K)
        IN  /\ trace' = Logged("refine", r, reply)
            /\ IF r.raised = "none"
               THEN /\ solution' = r.out
                    /\ state' = "REFINED"
                    /\ UNCHANGED <<feedback, result>>
               ELSE Surface(r)
    /\ UNCHANGED <<question, examples, haltvars, toolvars>>

-----------------------------------------------------------------------------
(* The refine session *)

Init ==
    /\ LoopInit
    /\ hf = NoText
    /\ hres = "none"
    /\ tcall = NoCall
    /\ tres = NoOutcome

Next == Answer \/ Feedback \/ Halt \/ Refine

Spec == Init /\ [][Next]_vars

-----------------------------------------------------------------------------
(* Feedback strings the halting policy is applied to *)

\* every way of writing "it is correct" in upper and lower case
CaseVariants ==
    {[j \in 1..Len(PHRASE) |->
        IF j \in S /\ IsLowerAscii(PHRASE[j]) THEN PHRASE[j] - 32 ELSE PHRASE[j]] :
            S \in SUBSET (1..Len(PHRASE))}

\* "It Is Correct"
PhraseTitle == <<73, 116, 32, 73, 115, 32, 67, 111, 114, 114, 101, 99, 116>>
\* "IT IS CORRECT"
PhraseUpper == <<73, 84, 32, 73, 83, 32, 67, 79, 82, 82, 69, 67, 84>>
\* "the answer is correctish"
Correctish ==
    <<116, 104, 101, 32, 97, 110, 115, 119, 101, 114, 32, 105, 115, 32,
      99, 111, 114, 114, 101, 99, 116, 105, 115, 104>>

Without(s, k) == SubSeq(s, 1, k - 1) \o SubSeq(s, k + 1, Len(s))
With(s, k, c) == [s EXCEPT ![k] = c]

\* strings one edit away from the phrase: a character dropped, or replaced by
\* "x", by U+0130 or by a second blank
NearMisses ==
    {Without(v, k) : v \in {PHRASE, PhraseTitle}, k \in 1..Len(PHRASE)}
        \cup {With(v, k, c) : v \in {PHRASE, PhraseUpper}, k \in 1..Len(PHRASE), c \in {120, 304}}
        \cup {SubSeq(PHRASE, 1, k) \o <<32>> \o SubSeq(PHRASE, k + 1, Len(PHRASE)) :
                k \in 1..Len(PHRASE)}
        \cup {Correctish, NoText}

\* " ", "I", "i", "t", U+0130
PadChars == {32, 73, 105, 116, 304}
Pads == UNION {[1..n -> PadChars] : n \in 0..MaxPad}

HaltInputs ==
    CaseVariants
        \cup {a \o v \o b : a \in Pads, b \in Pads,
                v \in {PHRASE, PhraseTitle, PhraseUpper} \cup NearMisses}

\* no refine session is running
LoopIdle ==
    /\ state = "INIT"
    /\ question = NoText
    /\ examples = NoText
    /\ solution = NoText
    /\ feedback = NoText
    /\ trace = << >>
    /\ result = NoResult

InitHalt ==
    /\ LoopIdle
    /\ hf \in HaltInputs
    /\ hres = "none"
    /\ tcall = NoCall
    /\ tres = NoOutcome

\* one application of _is_halted
ApplyIsHalted ==
    /\ hres = "none"
    /\ hres' = IF IsHalted(hf) THEN "true" ELSE "false"
    /\ UNCHANGED <<hf, loopvars, toolvars>>

NextHalt == ApplyIsHalted

SpecHalt == InitHalt /\ [][NextHalt]_vars

-----------------------------------------------------------------------------
(* Tool functions: utils/agent_tools.py *)

\* 'Wolfram Alpha API key not found in environment variables. Use a different tool.'
WolframKeyMissing ==
    <<87, 111, 108, 102, 114, 97, 109, 32, 65, 108, 112, 104, 97, 32, 65, 80, 73,
      32, 107, 101, 121, 32, 110, 111, 116, 32, 102, 111, 117, 110, 100, 32, 105,
      110, 32, 101, 110, 118, 105, 114, 111, 110, 109, 101, 110, 116, 32, 118, 97,
      114, 105, 97, 98, 108, 101, 115, 46, 32, 85, 115, 101, 32, 97, 32, 100, 105,
      102, 102, 101, 114, 101, 110, 116, 32, 116, 111, 111, 108, 46>>

\* 'No results found using Wolfram Alpha API.'
WolframNoResults ==
    <<78, 111, 32, 114, 101, 115, 117, 108, 116, 115, 32, 102, 111, 117, 110, 100,
      32, 117, 115, 105, 110, 103, 32, 87, 111, 108, 102, 114, 97, 109, 32, 65, 108,
      112, 104, 97, 32, 65, 80, 73, 46>>

\* 'Error occurred: '
WolframErrorPrefix ==
    <<69, 114, 114, 111, 114, 32, 111, 99, 99, 117, 114, 114, 101, 100, 58, 32>>

\* 'Google search key(s) not found in environment variables. Use a different tool.'
GoogleKeyMissing ==
    <<71, 111, 111, 103, 108, 101, 32, 115, 101, 97, 114, 99, 104, 32, 107, 101,
      121, 40, 115, 41, 32, 110, 111, 116, 32, 102, 111, 117, 110, 100, 32, 105,
      110, 32, 101, 110, 118, 105, 114, 111, 110, 109, 101, 110, 116, 32, 118, 97,
      114, 105, 97, 98, 108, 101, 115, 46, 32, 85, 115, 101, 32, 97, 32, 100, 105,
      102, 102, 101, 114, 101, 110, 116, 32, 116, 111, 111, 108, 46>>

\* 'Input interpretation'
InputInterpretation ==
    <<73, 110, 112, 117, 116, 32, 105, 110, 116, 101, 114, 112, 114, 101, 116, 97,
      116, 105, 111, 110>>

\* 'Result'
ResultTitle ==
    <<82, 101, 115, 117, 108, 116>>

\* ':\n'
ColonNewline ==
    <<58, 10>>

\* '\n'
Newline ==
    <<10>>

\* ' = '
EqualsSign ==
    <<32, 61, 32>>

\* ', '
CommaSpace ==
    <<44, 32>>

\* '__'
Underscores ==
    <<95, 95>>

\* what a tool call did
Returned(text) == [kind |-> "returned", value |-> text]
Raised(exc) == [kind |-> "raised", value |-> exc]

\* str.join
RECURSIVE Join(_, _)
Join(sep, parts) ==
    IF parts = << >> THEN << >>
    ELSE IF Len(parts) = 1 THEN parts[1]
    ELSE parts[1] \o sep \o Join(sep, Tail(parts))

StartsWith(s, prefix) == Len(s) >= Len(prefix) /\ SubSeq(s, 1, Len(prefix)) = prefix

(* execute_python.  The code is given as the statements that the split on
   ";", the strip and the join have produced.  A statement assigns a value to
   a name or raises; a program with a syntax error raises SyntaxError before
   any statement runs. *)

Assign(n, v) == [op |-> "assign", name |-> n, val |-> v, exc |-> "none"]
RaiseStmt(e) == [op |-> "raise", name |-> NoText, val |-> NoText, exc |-> e]
SyntaxErr == [op |-> "syntax", name |-> NoText, val |-> NoText, exc |-> "SyntaxError"]

\* exceptions that derive from Exception; SystemExit and KeyboardInterrupt
\* derive from BaseException only
ExceptionClasses == {"ValueError", "SyntaxError", "KeyError", "ConnectionError", "JSONDecodeError"}

\* str(e) of the exceptions the statements raise: "bad"
ExcMessage(e) == <<98, 97, 100>>

\* dict assignment: a new key goes last, an existing key keeps its place
SetVar(ns, n, v) ==
    IF \E i \in DOMAIN ns : ns[i].name = n
    THEN [i \in DOMAIN ns |-> IF ns[i].name = n THEN [name |-> n, val |-> v] ELSE ns[i]]
    ELSE Append(ns, [name |-> n, val |-> v])

\* exec(input_code, globals(), local_vars)
RECURSIVE Exec(_, _)
Exec(prog, ns) ==
    IF prog = << >> THEN [exc |-> "none", ns |-> ns]
    ELSE IF Head(prog).op = "assign"
    THEN Exec(Tail(prog), SetVar(ns, Head(prog).name, Head(prog).val))
    ELSE [exc |-> Head(prog).exc, ns |-> ns]

ExecutePython(prog) ==
    LET run == IF \E i \in DOMAIN prog : prog[i].op = "syntax"
               THEN [exc |-> "SyntaxError", ns |-> << >>]
               ELSE Exec(prog, << >>)
        variables_dict == SelectSeq(run.ns, LAMBDA kv : ~StartsWith(kv.name, Underscores))
    IN  IF run.exc \in ExceptionClasses THEN Returned(ExcMessage(run.exc))
        ELSE IF run.exc # "none" THEN Raised(run.exc)
        ELSE Returned(Join(CommaSpace,
                [i \in DOMAIN variables_dict |->
                    variables_dict[i].name \o EqualsSign \o variables_dict[i].val]))

(* execute_wolfram *)

Pod(title, texts) == [title |-> title, subpods |-> texts]

\* the loop over pods and subpods that builds output_string
RECURSIVE PodText(_)
PodText(pods) ==
    IF pods = << >> THEN << >>
    ELSE (IF Head(pods).title # InputInterpretation
          THEN Head(pods).title \o ColonNewline
                 \o Join(<< >>, [i \in DOMAIN Head(pods).subpods |->
                                    Head(pods).subpods[i] \o Newline])
          ELSE << >>) \o PodText(Tail(pods))

\* str(response.status_code): "200", "404", "500"
StatusText(code) ==
    IF code = 200 THEN <<50, 48, 48>>
    ELSE IF code = 404 THEN <<52, 48, 52>>
    ELSE <<53, 48, 48>>

\* app_id: the value of WOLFRAM_ALPHA_APP_ID ("unset" for None, "" or a key);
\* http: what requests.get did ("raise", or a response)
ExecuteWolfram(app_id, http) ==
    IF app_id \in {"unset", ""} THEN Returned(WolframKeyMissing)
    ELSE IF http.kind = "raise" THEN Raised("ConnectionError")
    ELSE IF http.status = 200
    THEN IF ~http.body.json THEN Raised("JSONDecodeError")
         ELSE IF http.body.queryresult
         THEN IF ~http.body.haspods THEN Raised("KeyError")
              ELSE Returned(Strip(PodText(http.body.pods)))
         ELSE Returned(WolframNoResults)
    ELSE Returned(WolframErrorPrefix \o StatusText(http.status))

(* search_google *)

\* found: what search.results(query, num_results=1) did: "raise", or the list
\* of result dicts, each with or without a "snippet" entry
SearchGoogle(cse_id, google_key, found) ==
    IF cse_id \in {"unset", ""} \/ google_key \in {"unset", ""}
    THEN Returned(GoogleKeyMissing)
    ELSE IF found.kind = "raise" THEN Raised("HttpError")
    ELSE LET search_result == found.items[Len(found.items)]
         IN  IF search_result.hassnippet THEN Returned(search_result.snippet)
             ELSE Raised("KeyError")

(* The inputs and the outcomes of the outside world the tools are run on *)

\* a = 1, a = 100, b = 1, __h = 1, raise ValueError, exit(), a syntax error
Statements ==
    {Assign(<<97>>, <<49>>), Assign(<<97>>, <<49, 48, 48>>), Assign(<<98>>, <<49>>),
     Assign(<<95, 95, 104>>, <<49>>),
     RaiseStmt("ValueError"), RaiseStmt("SystemExit"), SyntaxErr}
Programs == UNION {[1..n -> Statements] : n \in 0..MaxStatements}

EnvValues == {"unset", "", "key"}

\* "4"
Four == <<52>>
PodChoices == {Pod(InputInterpretation, <<Four>>), Pod(ResultTitle, <<Four>>),
               Pod(ResultTitle, << >>)}
PodLists == UNION {[1..n -> PodChoices] : n \in 0..MaxPods}

Bodies ==
    {[json |-> FALSE, queryresult |-> FALSE, haspods |-> FALSE, pods |-> << >>],
     [json |-> TRUE, queryresult |-> FALSE, haspods |-> FALSE, pods |-> << >>],
     [json |-> TRUE, queryresult |-> TRUE, haspods |-> FALSE, pods |-> << >>]}
        \cup {[json |-> TRUE, queryresult |-> TRUE, haspods |-> TRUE, pods |-> ps] :
                ps \in PodLists}

HttpOutcomes ==
    {[kind |-> "raise", status |-> 0, body |-> [json |-> FALSE, queryresult |-> FALSE,
                                                haspods |-> FALSE, pods |-> << >>]]}
        \cup {[kind |-> "response", status |-> st, body |-> b] :
                st \in {200, 404, 500}, b \in Bodies}

\* the wrapper hands back one dict for num_results=1: a result with a
\* snippet, a result without one, or its "no good result" placeholder
SearchOutcomes ==
    {[kind |-> "raise", items |-> << >>],
     [kind |-> "list", items |-> <<[hassnippet |-> TRUE, snippet |-> Four]>>],
     [kind |-> "list", items |-> <<[hassnippet |-> FALSE, snippet |-> NoText]>>]}

InitTools ==
    /\ LoopIdle
    /\ hf = NoText
    /\ hres = "none"
    /\ tcall = NoCall
    /\ tres = NoOutcome

CallExecutePython ==
    \E prog \in Programs :
        /\ tcall' = <<"execute_python", prog>>
        /\ tres' = ExecutePython(prog)
        /\ UNCHANGED <<loopvars, haltvars>>

CallExecuteWolfram ==
    \E app_id \in EnvValues, http \in HttpOutcomes :
        /\ tcall' = <<"execute_wolfram", app_id, http>>
        /\ tres' = ExecuteWolfram(app_id, http)
        /\ UNCHANGED <<loopvars, haltvars>>

CallSearchGoogle ==
    \E cse_id \in EnvValues, google_key \in EnvValues, found \in SearchOutcomes :
        /\ tcall' = <<"search_google", cse_id, google_key, found>>
        /\ tres' = SearchGoogle(cse_id, google_key, found)
        /\ UNCHANGED <<loopvars, haltvars>>

NextTools == CallExecutePython \/ CallExecuteWolfram \/ CallSearchGoogle

SpecTools == InitTools /\ [][NextTools]_vars

-----------------------------------------------------------------------------
(* Properties of the Refine Loop *)

SameLetter(a, b) ==
    \/ a = b
    \/ IsUpperAscii(a) /\ a + 32 = b
    \/ IsUpperAscii(b) /\ b + 32 = a

\* f has a window that reads "it is correct" when case is ignored
ContainsPhraseCI(f) ==
    \E i \in 1..(Len(f) - Len(PHRASE) + 1) :
        \A j \in 1..Len(PHRASE) : SameLetter(f[i + j - 1], PHRASE[j])

Succeeded(kind) == SelectSeq(trace, LAMBDA e : e.step = kind /\ e.raised = "none")
StepNames == [i \in 1..Len(trace) |-> trace[i].step]

\* the stub gave non-halting feedback twice, then halting feedback
TwoThenHalt ==
    LET fb == Succeeded("feedback")
    IN  /\ Len(fb) >= 3
        /\ ~ContainsPhraseCI(fb[1].out)
        /\ ~ContainsPhraseCI(fb[2].out)
        /\ ContainsPhraseCI(fb[3].out)

\* C2: whenever the halting policy is true on the current Feedback the loop
\* goes to HALTED, hands back the Solution of the answer/refine step right
\* before that feedback, and the llm is not called again.
C2_HaltReturnsCurrentSolution ==
    [][/\ (state = "FEEDBACK_GIVEN" /\ result.kind = "none" /\ ContainsPhraseCI(feedback))
            => /\ state' = "HALTED"
               /\ trace' = trace
               /\ trace[Len(trace)].step = "feedback"
               /\ trace[Len(trace) - 1].step \in {"answer", "refine"}
               /\ result' = [kind |-> "solution", value |-> trace[Len(trace) - 1].out]
       /\ state = "HALTED" => trace' = trace]_vars

C2_Witness ==
    /\ state = "HALTED"
    /\ refinements = 1
    /\ result.kind = "solution"
    /\ result.value = trace[Len(trace) - 1].out
    /\ trace[Len(trace) - 1].step = "refine"

\* C3: when the first feedback carries the acceptance phrase the loop makes
\* exactly two llm calls (answer, feedback), no refinement, and the Solution
\* it holds and returns is the one of the answer step.
C3_TwoCallsFirstSolution ==
    (Len(trace) >= 2 /\ trace[2].raised = "none" /\ ContainsPhraseCI(trace[2].out))
        => /\ calls = 2
           /\ StepNames = <<"answer", "feedback">>
           /\ refinements = 0
           /\ state \in {"FEEDBACK_GIVEN", "HALTED"}
           /\ solution = trace[1].out
           /\ state = "HALTED" => result = [kind |-> "solution", value |-> trace[1].out]

C3_Witness ==
    /\ state = "HALTED"
    /\ calls = 2
    /\ result.kind = "solution"
    /\ result.value = <<52, 50>>
    /\ ContainsPhraseCI(feedback)

\* C4: non-halting feedback twice and halting feedback the third time: the
\* loop has refined exactly twice, halts, and the Solution it returns is the
\* output of the second refine call.
C4_TwoRefinementsThenHalt ==
    TwoThenHalt
        => /\ refinements = 2
           /\ Len(Succeeded("feedback")) = 3
           /\ solution = Succeeded("refine")[2].out
           /\ state \in {"FEEDBACK_GIVEN", "HALTED"}
           /\ state = "FEEDBACK_GIVEN" => result.kind = "none"
           /\ state = "HALTED" =>
                result = [kind |-> "solution", value |-> Succeeded("refine")[2].out]

C4_Witness ==
    /\ TwoThenHalt
    /\ state = "HALTED"
    /\ refinements = 2
    /\ result.value = <<82, 50>>

\* C5 as stated: in that scenario the loop has made 5 llm calls when it halts.
C5_FiveCalls ==
    (TwoThenHalt /\ state = "HALTED") => calls = 5

\* C5 amended: in that scenario the loop has made 6 llm calls when it
\* halts: answer, feedback, refine, feedback, refine, feedback.
C5_SixCalls ==
    TwoThenHalt
        => /\ calls = 6
           /\ StepNames = <<"answer", "feedback", "refine", "feedback", "refine", "feedback">>
           /\ state \in {"FEEDBACK_GIVEN", "HALTED"}
           /\ state = "FEEDBACK_GIVEN" => result.kind = "none"

C5_Witness ==
    /\ TwoThenHalt
    /\ state = "HALTED"
    /\ calls = 6

\* C6: whenever a halting decision is made on the held Feedback, that
\* Feedback is the output of the latest llm call, and the prompt of that call
\* carried the Solution that is current (the output of the answer or refine
\* step right before it).
C6_FeedbackOfCurrentSolution ==
    ((state = "FEEDBACK_GIVEN" /\ result.kind = "none") \/ state = "HALTED")
        => /\ trace[Len(trace)].step = "feedback"
           /\ trace[Len(trace)].out = feedback
           /\ PromptValues(trace[Len(trace)].prompt, "solution") = {solution}
           /\ trace[Len(trace) - 1].step \in {"answer", "refine"}
           /\ trace[Len(trace) - 1].out = solution

C6_Witness ==
    /\ state = "FEEDBACK_GIVEN"
    /\ refinements = 2
    /\ solution # examples
    /\ solution # Succeeded("refine")[1].out
    /\ PromptValues(trace[Len(trace)].prompt, "solution") = {solution}

\* C7 as stated: once the first phase has completed the Solution is non-empty.
C7_SolutionNonEmpty ==
    state # "INIT" => solution # NoText

LastSolutionStep ==
    LET done == Done("answer") \cup Done("refine")
    IN  trace[CHOOSE i \in done : \A j \in done : j <= i]

\* C7 amended: once the first phase has completed the Solution is the trimmed
\* reply of the latest successful answer/refine call: no leading or trailing
\* whitespace, and non-empty exactly when that reply has a non-whitespace
\* character.
C7_SolutionTrimmed ==
    state # "INIT"
        => /\ solution # NoText => (~IsSpace(solution[1]) /\ ~IsSpace(solution[Len(solution)]))
           /\ solution # NoText <=>
                \E i \in 1..Len(LastSolutionStep.reply.text) :
                    ~IsSpace(LastSolutionStep.reply.text[i])
           /\ Contains(solution, LastSolutionStep.reply.text)

C7_Witness ==
    /\ state = "REFINED"
    /\ solution = <<82, 50>>
    /\ LastSolutionStep.reply.text = <<32, 82, 50, 10>>

\* C8: a step whose llm call fails (the service raises, or the content is not
\* text) signals the error to the caller, stores nothing (state, Solution and
\* Feedback keep the values of the last successful step), made that one call
\* only, and the session makes no further call.
C8_FailureSurfaces ==
    [][/\ (trace' # trace /\ trace'[Len(trace')].reply.kind # "text")
            => /\ result' = [kind |-> "error", value |-> NoText]
               /\ trace'[Len(trace')].raised # "none"
               /\ Len(trace') = Len(trace) + 1
               /\ solution' = solution
               /\ feedback' = feedback
               /\ state' = state
       /\ result.kind = "error" => (trace' = trace /\ solution' = solution /\ feedback' = feedback)
      ]_vars

C8_Witness ==
    /\ result.kind = "error"
    /\ state = "FEEDBACK_GIVEN"
    /\ trace[Len(trace)].step = "refine"
    /\ trace[Len(trace)].reply.kind = "nontext"
    /\ solution = <<82, 49>>
    /\ feedback # NoText

AllFeedbackLacksPhrase ==
    \A i \in Done("feedback") : ~ContainsPhraseCI(trace[i].out)

\* C10: HALTED is entered only from FEEDBACK_GIVEN and only with the
\* acceptance phrase in the latest Feedback; as long as every Feedback lacks
\* the phrase the loop is not halted, has refined once per Feedback when it
\* is in REFINED, and (below the exploration bound) the next refinement is
\* possible whatever the number of refinements so far.
C10_HaltOnlyOnPhrase ==
    /\ [](AllFeedbackLacksPhrase
            => /\ state # "HALTED"
               /\ state = "REFINED" => refinements = Cardinality(Done("feedback"))
               /\ (state = "FEEDBACK_GIVEN" /\ Running) => ENABLED Refine)
    /\ [][(state' = "HALTED" /\ state # "HALTED")
            => /\ state = "FEEDBACK_GIVEN"
               /\ ContainsPhraseCI(feedback)
               /\ feedback = trace[Len(trace)].out]_vars

C10_Witness ==
    /\ AllFeedbackLacksPhrase
    /\ state = "REFINED"
    /\ refinements = 3

-----------------------------------------------------------------------------
(* Properties of the halting policy *)

\* C1: _is_halted(f) is true exactly when f contains "it is correct" with
\* case ignored; true for "It Is Correct", "it is correct" and "IT IS CORRECT"
\* anywhere in f, false for "the answer is correctish".
C1_HaltIffPhrase ==
    hres # "none"
        => /\ hres = "true" <=> ContainsPhraseCI(hf)
           /\ (\E v \in {PHRASE, PhraseTitle, PhraseUpper} : Contains(v, hf)) => hres = "true"
           /\ hf = Correctish => hres = "false"

\* " It Is Correctt": the phrase in mixed case inside longer text
C1_Witness ==
    /\ hres = "true"
    /\ hf = <<32>> \o PhraseTitle \o <<116>>

-----------------------------------------------------------------------------
(* Properties of the tool functions *)

\* C9: every call of a tool function returns a string, whatever the input
\* and whatever the underlying operation did; no error reaches the caller.
C9_ToolsNeverRaise ==
    tres.kind # "none" => tres.kind = "returned"

====
